---- MODULE Spec2Model ----
(***************************************************************************)
(* dockinfo (src/main.py): a read-only HTTP facade over the Docker API.    *)
(*                                                                         *)
(* Strings are TLA+ strings; the character-level operations of the code    *)
(* (str.lower, str.split, str.strip, str.replace, fnmatch) are computed    *)
(* character by character with Len, SubSeq and \o.                         *)
(***************************************************************************)
EXTENDS Integers, Sequences, FiniteSets, TLC

(***************************************************************************)
(* Bounds of the model.                                                    *)
(***************************************************************************)
\* Number of request-handling threads of the threaded Flask server.
NThreads == 2
\* How often the Docker daemon may start or stop during a run.
MaxRestarts == 1
\* Longest container enumeration of the scan worlds.
MaxContainers == 2
\* Longest generated CORS entry / Origin header, in tokens.
MaxTokens == 3

(***************************************************************************)
(* Python string primitives.                                               *)
(***************************************************************************)
CharAt(s, i) == SubSeq(s, i, i)

\* s[i:] with a 0-based Python index i
From(s, i) == SubSeq(s, i + 1, Len(s))

\* s.startswith(p)
StartsWith(s, p) == Len(p) <= Len(s) /\ SubSeq(s, 1, Len(p)) = p

\* s.find(p): the 1-based index of the first occurrence of p in s, 0 if none
Find(s, p) ==
  LET hits == {i \in 1..Len(s) : StartsWith(From(s, i - 1), p)}
  IN  IF hits = {} THEN 0 ELSE CHOOSE i \in hits : \A j \in hits : i <= j

\* p in s
Contains(s, p) == Find(s, p) # 0

\* s.split(sep, 1): the pair around the first occurrence of sep (sep occurs in s)
SplitOnce(s, sep) ==
  LET i == Find(s, sep)
  IN  <<SubSeq(s, 1, i - 1), From(s, i - 1 + Len(sep))>>

\* s.split(sep)
RECURSIVE SplitAll(_, _)
SplitAll(s, sep) ==
  IF ~Contains(s, sep) THEN <<s>>
  ELSE <<SplitOnce(s, sep)[1]>> \o SplitAll(SplitOnce(s, sep)[2], sep)

\* s.strip()
RECURSIVE Strip(_)
Strip(s) ==
  IF s = "" THEN s
  ELSE IF CharAt(s, 1) = " " THEN Strip(From(s, 1))
  ELSE IF CharAt(s, Len(s)) = " " THEN Strip(SubSeq(s, 1, Len(s) - 1))
  ELSE s

\* s.replace(old, new), old non-empty
RECURSIVE Replace(_, _, _)
Replace(s, old, new) ==
  IF ~Contains(s, old) THEN s
  ELSE SplitOnce(s, old)[1] \o new \o Replace(SplitOnce(s, old)[2], old, new)

UpperCase == "ABCDEFGHIJKLMNOPQRSTUVWXYZ"
LowerCase == "abcdefghijklmnopqrstuvwxyz"

\* a comparison that forgets to fold the case
LowerForgotten(s) == s

\* s.lower()
RECURSIVE Lower(_)
Lower(s) ==
  IF s = "" THEN ""
  ELSE LET c == CharAt(s, 1)
           i == Find(UpperCase, c)
       IN  (IF i = 0 THEN c ELSE CharAt(LowerCase, i)) \o Lower(From(s, 1))

\* fnmatch.fnmatch(name, pat) on POSIX (normcase is the identity): '*' matches
\* any run of characters, '?' any one character, every other character itself.
\* Patterns with '[' (character classes) are outside the generated inputs.
RECURSIVE fnmatch(_, _)
fnmatch(name, pat) ==
  IF pat = "" THEN name = ""
  ELSE IF CharAt(pat, 1) = "*"
    THEN \E k \in 0..Len(name) : fnmatch(From(name, k), From(pat, 1))
  ELSE IF CharAt(pat, 1) = "?"
    THEN name # "" /\ fnmatch(From(name, 1), From(pat, 1))
  ELSE name # "" /\ CharAt(name, 1) = CharAt(pat, 1)
       /\ fnmatch(From(name, 1), From(pat, 1))

(***************************************************************************)
(* CORS origin policy.                                                     *)
(***************************************************************************)
\* Python's None: an unset environment variable, a missing request parameter,
\* the value of dict.get(key) for an absent key
None == "<None>"

\* os.getenv('CORS_ORIGINS', 'https://royadler.de')
CorsDefault == "https://royadler.de"

RECURSIVE StripNonEmpty(_)
StripNonEmpty(parts) ==
  IF parts = <<>> THEN <<>>
  ELSE (IF Strip(Head(parts)) # "" THEN <<Strip(Head(parts))>> ELSE <<>>)
       \o StripNonEmpty(Tail(parts))

\* allowed_origins_config as computed at import time from the environment
ParseCorsOrigins(env) ==
  StripNonEmpty(SplitAll(IF env = None THEN CorsDefault ELSE env, ","))

\* the loop body without its scheme-less second try
PatternAllowsFullMatchOnly(origin, pattern) ==
  \/ origin = pattern
  \/ Contains(pattern, "*") /\ fnmatch(origin, pattern)

\* one iteration of the loop of origin_allowed: TRUE iff it returns True
PatternAllows(origin, pattern) ==
  \/ origin = pattern
  \/ /\ Contains(pattern, "*")
     /\ LET fnmatch_pattern == Replace(Replace(pattern, "*.", "*."), "*", "*")
        IN  \/ fnmatch(origin, fnmatch_pattern)
            \/ /\ Contains(pattern, "://")
               /\ Contains(origin, "://")
               /\ fnmatch(SplitOnce(origin, "://")[2], SplitOnce(pattern, "://")[2])

RECURSIVE AnyPatternAllows(_, _)
AnyPatternAllows(origin, config) ==
  IF config = <<>> THEN FALSE
  ELSE IF PatternAllows(origin, Head(config)) THEN TRUE
  ELSE AnyPatternAllows(origin, Tail(config))

\* origin_allowed(origin) under allowed_origins_config = config;
\* "" stands for an absent (None) or empty Origin header: both are falsy
origin_allowed(origin, config) ==
  IF origin = "" THEN FALSE ELSE AnyPatternAllows(origin, config)

(***************************************************************************)
(* The Docker runtime as the service sees it.                              *)
(***************************************************************************)
\* bool(v) of a string or None
Truthy(v) == v # None /\ v # ""

\* a or b
Or(a, b) == IF Truthy(a) THEN a ELSE b

\* labels.get(key, default)
LabelGet(labels, key, default) ==
  IF key \in DOMAIN labels THEN labels[key] ELSE default

\* the labels mapping with exactly the keys whose value is not None
MkLabels(enable, name, service_name, service_url, url, description, tier) ==
  LET all == [k \in {"dockinfo.enable", "dockinfo.name", "dockinfo.service.name",
                     "dockinfo.service.url", "dockinfo.url",
                     "dockinfo.description", "tier"} |->
                CASE k = "dockinfo.enable" -> enable
                  [] k = "dockinfo.name" -> name
                  [] k = "dockinfo.service.name" -> service_name
                  [] k = "dockinfo.service.url" -> service_url
                  [] k = "dockinfo.url" -> url
                  [] k = "dockinfo.description" -> description
                  [] OTHER -> tier]
  IN  [k \in {x \in DOMAIN all : all[x] # None} |-> all[k]]

\* What the runtime reports of one container, apart from its identity:
\*   labels_none  the runtime reports no labels at all (container.labels is None)
\*   fault        "image": the container's image was deleted, so container.image
\*                  raises ImageNotFound;
\*                "removed": the container is removed while containers.list
\*                  inspects the containers it enumerated, so that inspection
\*                  raises NotFound (ignore_removed is False);
\*                "none" otherwise
Profile(labels_none, labels, fault) ==
  [labels_none |-> labels_none, labels |-> labels, fault |-> fault]

NoLabels == MkLabels(None, None, None, None, None, None, None)

\* profiles with every combination of the name/url/description labels
DetailProfiles ==
  {Profile(FALSE, MkLabels(e, n, sn, su, u, d, None), "none") :
     e \in {None, "true"}, n \in {None, "", "Website"}, sn \in {None, "", "svc"},
     su \in {None, "", "https://x"}, u \in {None, "", "http://u"},
     d \in {None, "d"}}
  \cup {Profile(TRUE, NoLabels, "none")}

\* profiles of the containers of longer enumerations
ListProfiles ==
  {Profile(FALSE, MkLabels(e, None, None, None, None, None, t), "none") :
     e \in {None, "true", "True", "false"}, t \in {None, "a=b"}}
  \cup {Profile(TRUE, NoLabels, "none"),
        Profile(FALSE, MkLabels("true", None, None, None, None, None, "a=b"), "removed"),
        Profile(FALSE, MkLabels("true", None, None, None, None, None, "a=b"), "image")}

\* identity of the i-th container of an enumeration: names and ids are unique
ContainerNames == <<"web1", "db", "cache", "proxy">>
ContainerIds == <<"aaaaaaaaaaaa1111", "bbbbbbbbbbbb2222", "cccccccccccc3333",
                  "dddddddddddd4444">>
\* every second container runs an untagged image
ImageOf(i) ==
  IF i % 2 = 1
    THEN [id |-> "sha256:0123456789abcdef", tags |-> <<"nginx:latest">>]
    ELSE [id |-> "sha256:fedcba9876543210", tags |-> <<>>]

MkContainer(i, p) ==
  [name |-> ContainerNames[i], id |-> ContainerIds[i], image |-> ImageOf(i),
   status |-> "running", labels_none |-> p.labels_none, labels |-> p.labels,
   fault |-> p.fault]

RECURSIVE ProfileLists(_)
ProfileLists(n) ==
  IF n = 0 THEN {<<>>}
  ELSE ProfileLists(n - 1)
       \cup {Append(ps, p) : ps \in {q \in ProfileLists(n - 1) : Len(q) = n - 1},
                             p \in ListProfiles}

MkWorld(ps) == [i \in 1..Len(ps) |-> MkContainer(i, ps[i])]

\* container enumerations of the scan specification
ScanWorlds ==
  {MkWorld(<<p>>) : p \in DetailProfiles}
  \cup {MkWorld(ps) : ps \in ProfileLists(MaxContainers)}

\* container enumerations of the concurrent specification
ServiceWorlds ==
  {MkWorld(<<Profile(FALSE, MkLabels("true", "Website", None, "https://x", None, None, "a=b"), "none"),
             Profile(TRUE, NoLabels, "none")>>)}

(***************************************************************************)
(* Results, exceptions and the except clauses of the handlers.             *)
(***************************************************************************)
Ret(v) == [exc |-> FALSE, value |-> v]
Raise(type, msg) == [exc |-> TRUE, type |-> type, msg |-> msg]

\* the classes an exception of the given type is an instance of
\* (docker.errors: ImageNotFound < NotFound < APIError < DockerException)
ClassesOf(type) ==
  CASE type = "ImageNotFound" -> {"ImageNotFound", "NotFound", "DockerException", "Exception"}
    [] type = "NotFound" -> {"NotFound", "DockerException", "Exception"}
    [] type = "DockerException" -> {"DockerException", "Exception"}
    [] OTHER -> {type, "Exception"}

\* try/except: the value of the first clause whose class the exception is an
\* instance of; clauses is a sequence of [cls, value] in source order
RECURSIVE ExceptChain(_, _)
ExceptChain(e, clauses) ==
  IF Head(clauses).cls \in ClassesOf(e.type) THEN Head(clauses).value
  ELSE ExceptChain(e, Tail(clauses))

Clause(cls, value) == [cls |-> cls, value |-> value]

Resp(status, body) == [status |-> status, body |-> body]
NoResponse == Resp(0, [pending |-> TRUE])

DaemonMsg == "Docker daemon not available. Make sure Docker socket is mounted."
ErrorBody(msg) == [error |-> msg]

\* what get_docker_client raises when construction or the ping fails
InitError == Raise("DockerException", "Docker daemon not available: connection failed")
\* what a call on a client raises while the daemon is unreachable
\* (requests.exceptions.ConnectionError, which is no DockerException)
ConnError == Raise("ConnectionError", "Connection aborted.")

(***************************************************************************)
(* Descriptor resolver.                                                    *)
(***************************************************************************)
\* container.labels or {}
LabelsOf(c) == IF c.labels_none THEN NoLabels ELSE c.labels

\* the dict with the two name labels consulted in the wrong order
ServiceDescriptorServiceNameFirst(c) ==
  LET labels == LabelsOf(c)
  IN  [name |-> Or(Or(LabelGet(labels, "dockinfo.service.name", None),
                      LabelGet(labels, "dockinfo.name", None)), c.name),
       url |-> Or(LabelGet(labels, "dockinfo.service.url", None),
                  LabelGet(labels, "dockinfo.url", "")),
       description |-> LabelGet(labels, "dockinfo.description", "")]

\* the dict built from the labels
ServiceDescriptor(c) ==
  LET labels == LabelsOf(c)
  IN  [name |-> Or(Or(LabelGet(labels, "dockinfo.name", None),
                      LabelGet(labels, "dockinfo.service.name", None)), c.name),
       url |-> Or(LabelGet(labels, "dockinfo.service.url", None),
                  LabelGet(labels, "dockinfo.url", "")),
       description |-> LabelGet(labels, "dockinfo.description", "")]

\* client.containers.get(name): the index of the container with that name, id
\* or id prefix; 0 if there is none
LookupContainer(ctrs, name) ==
  LET hits == {i \in 1..Len(ctrs) : /\ ctrs[i].fault # "removed"
                                    /\ \/ ctrs[i].name = name
                                       \/ StartsWith(ctrs[i].id, name)}
  IN  IF hits = {} THEN 0 ELSE CHOOSE i \in hits : \A j \in hits : i <= j

ServiceInfoExcept(e, container_name) ==
  ExceptChain(e, <<Clause("DockerException", ErrorBody(DaemonMsg)),
                   Clause("NotFound", ErrorBody("Container " \o container_name \o " not found")),
                   Clause("Exception", ErrorBody(e.msg))>>)

\* the try block of get_service_info_from_labels after get_docker_client returned
ServiceInfoBody(ctrs, up, container_name) ==
  IF ~up THEN ConnError
  ELSE LET i == LookupContainer(ctrs, container_name)
       IN  IF i = 0 THEN Raise("NotFound", "404 Client Error: Not Found")
           ELSE Ret(ServiceDescriptor(ctrs[i]))

\* got_client: get_docker_client() returned a client (TRUE) or raised (FALSE)
get_service_info_from_labels(got_client, ctrs, up, container_name) ==
  LET r == IF got_client THEN ServiceInfoBody(ctrs, up, container_name) ELSE InitError
  IN  IF r.exc THEN ServiceInfoExcept(r, container_name) ELSE r.value

ContainerInfoExcept(e, container_name) ==
  ExceptChain(e, <<Clause("DockerException", ErrorBody(DaemonMsg)),
                   Clause("NotFound", ErrorBody("Container " \o container_name \o " not found")),
                   Clause("Exception", ErrorBody(e.msg))>>)

\* the try block of get_container_info; the dict's entries are evaluated in
\* source order (the pass-through attrs created/ports/environment are left out)
ContainerInfoBody(ctrs, up, container_name) ==
  IF ~up THEN ConnError
  ELSE LET i == LookupContainer(ctrs, container_name)
       IN  IF i = 0 THEN Raise("NotFound", "404 Client Error: Not Found")
           ELSE LET c == ctrs[i]
                IN  IF c.fault = "image" THEN Raise("ImageNotFound", "404 Client Error: No such image")
                    ELSE Ret([name |-> c.name,
                              id |-> SubSeq(c.id, 1, 12),
                              image |-> IF c.image.tags # <<>> THEN c.image.tags[1] ELSE c.image.id,
                              image_id |-> c.image.id,
                              status |-> c.status,
                              labels |-> LabelsOf(c)])

\* got_client: get_docker_client() returned a client (TRUE) or raised (FALSE)
get_container_info(got_client, ctrs, up, container_name) ==
  LET r == IF got_client THEN ContainerInfoBody(ctrs, up, container_name) ELSE InitError
  IN  IF r.exc THEN ContainerInfoExcept(r, container_name) ELSE r.value

\* the images the runtime holds: those of the containers whose image still exists
ImagesOf(ctrs) == {ctrs[i].image : i \in {j \in 1..Len(ctrs) : ctrs[j].fault # "image"}}

ImageInfoExcept(e, image_name) ==
  ExceptChain(e, <<Clause("DockerException", ErrorBody(DaemonMsg)),
                   Clause("ImageNotFound", ErrorBody("Image " \o image_name \o " not found")),
                   Clause("Exception", ErrorBody(e.msg))>>)

\* the try block of get_image_info (the pass-through attrs are left out)
ImageInfoBody(ctrs, up, image_name) ==
  IF ~up THEN ConnError
  ELSE LET hits == {im \in ImagesOf(ctrs) :
                      im.id = image_name \/ \E k \in 1..Len(im.tags) : im.tags[k] = image_name}
       IN  IF hits = {} THEN Raise("ImageNotFound", "404 Client Error: No such image")
           ELSE LET im == CHOOSE x \in hits : TRUE
                IN  Ret([id |-> im.id, tags |-> im.tags])

\* got_client: get_docker_client() returned a client (TRUE) or raised (FALSE)
get_image_info(got_client, ctrs, up, image_name) ==
  LET r == IF got_client THEN ImageInfoBody(ctrs, up, image_name) ELSE InitError
  IN  IF r.exc THEN ImageInfoExcept(r, image_name) ELSE r.value

(***************************************************************************)
(* Directory scanner.                                                      *)
(***************************************************************************)
\* client.containers.list(all=True): every container, running or stopped
ListAll(ctrs, up) ==
  IF ~up THEN ConnError
  ELSE IF \E i \in 1..Len(ctrs) : ctrs[i].fault = "removed"
    THEN Raise("NotFound", "404 Client Error: No such container")
  ELSE Ret(ctrs)

\* the for loop of get_enabled_services from element i on
RECURSIVE EnabledLoop(_, _, _)
EnabledLoop(ctrs, i, services) ==
  IF i > Len(ctrs) THEN Ret(services)
  ELSE LET c == ctrs[i]
       IN  IF Lower(LabelGet(LabelsOf(c), "dockinfo.enable", "")) # "true"
             THEN EnabledLoop(ctrs, i + 1, services)
           ELSE IF Truthy(ServiceDescriptor(c).name)
             THEN EnabledLoop(ctrs, i + 1, Append(services, ServiceDescriptor(c)))
           ELSE EnabledLoop(ctrs, i + 1, services)

get_enabled_services(got_client, ctrs, up) ==
  LET r == IF ~got_client THEN InitError
           ELSE IF ListAll(ctrs, up).exc THEN ListAll(ctrs, up)
           ELSE EnabledLoop(ListAll(ctrs, up).value, 1, <<>>)
  IN  IF r.exc
        THEN ExceptChain(r, <<Clause("DockerException", <<>>), Clause("Exception", <<>>)>>)
        ELSE r.value

\* list_packages: GET /packages
list_packages(got_client, ctrs, up) ==
  LET services == get_enabled_services(got_client, ctrs, up)
  IN  Resp(200, [count |-> Len(services), packages |-> services])

\* the for loop of packages_by_label from element i on
RECURSIVE ByLabelLoop(_, _, _, _, _)
ByLabelLoop(ctrs, i, label_key, label_value, matching_services) ==
  IF i > Len(ctrs) THEN Ret(matching_services)
  ELSE LET c == ctrs[i]
       IN  IF LabelGet(LabelsOf(c), label_key, None) = label_value
                   /\ Truthy(ServiceDescriptor(c).name)
             THEN ByLabelLoop(ctrs, i + 1, label_key, label_value,
                              Append(matching_services, ServiceDescriptor(c)))
           ELSE ByLabelLoop(ctrs, i + 1, label_key, label_value, matching_services)

\* packages_by_label up to the call of get_docker_client: the response it returns
\* before that call, or NoResponse if it goes on to call it
ByLabelReject(label_filter) ==
  IF ~Truthy(label_filter)
    THEN Resp(400, ErrorBody("Label filter required (e.g., ?label=dockinfo.enable=true)"))
  ELSE IF ~Contains(label_filter, "=")
    THEN Resp(400, ErrorBody("Label filter must be in format key=value"))
  ELSE NoResponse

\* a filter split at its last '=' instead of its first
SplitFilterAtLast(label_filter) ==
  LET i == CHOOSE k \in 1..Len(label_filter) :
             /\ CharAt(label_filter, k) = "="
             /\ \A j \in (k + 1)..Len(label_filter) : CharAt(label_filter, j) # "="
  IN  <<SubSeq(label_filter, 1, i - 1), From(label_filter, i)>>

\* label_filter.split('=', 1)
SplitFilter(label_filter) == SplitOnce(label_filter, "=")

\* packages_by_label from the call of get_docker_client on
packages_by_label(got_client, ctrs, up, label_filter) ==
  LET label_key == SplitFilter(label_filter)[1]
      label_value == SplitFilter(label_filter)[2]
      r == IF ~got_client THEN InitError
           ELSE IF ListAll(ctrs, up).exc THEN ListAll(ctrs, up)
           ELSE ByLabelLoop(ListAll(ctrs, up).value, 1, label_key, label_value, <<>>)
  IN  IF r.exc
        THEN ExceptChain(r, <<Clause("DockerException", Resp(503, ErrorBody(DaemonMsg))),
                              Clause("Exception", Resp(500, ErrorBody(r.msg)))>>)
        ELSE Resp(200, [filter |-> label_filter, count |-> Len(r.value),
                        packages |-> r.value])

\* the inner try of list_containers: the image of the entry, 'unknown' if
\* looking it up raises
ListImageInfo(c) ==
  IF c.fault = "image" THEN "unknown"
  ELSE IF c.image.tags # <<>> THEN c.image.tags[1]
  ELSE IF Len(c.image.id) > 19 THEN SubSeq(c.image.id, 1, 19) ELSE c.image.id

\* the outer try of list_containers: the entry of one container; name, id and
\* status of an inspected container are plain attribute reads
ListEntry(c) ==
  Ret([name |-> c.name, id |-> SubSeq(c.id, 1, 12),
       image |-> ListImageInfo(c), status |-> c.status])

\* the for loop of list_containers from element i on: an element whose
\* processing raises is skipped
RECURSIVE ListLoop(_, _, _)
ListLoop(ctrs, i, out) ==
  IF i > Len(ctrs) THEN Ret(out)
  ELSE IF ListEntry(ctrs[i]).exc THEN ListLoop(ctrs, i + 1, out)
  ELSE ListLoop(ctrs, i + 1, Append(out, ListEntry(ctrs[i]).value))

\* list_containers: GET /list
list_containers(got_client, ctrs, up) ==
  LET r == IF ~got_client THEN InitError
           ELSE IF ListAll(ctrs, up).exc THEN ListAll(ctrs, up)
           ELSE ListLoop(ListAll(ctrs, up).value, 1, <<>>)
  IN  IF r.exc
        THEN ExceptChain(r, <<Clause("DockerException", Resp(503, ErrorBody(DaemonMsg))),
                              Clause("Exception", Resp(500, ErrorBody(r.msg)))>>)
        ELSE Resp(200, [count |-> Len(r.value), containers |-> r.value])

(***************************************************************************)
(* Request handlers.                                                       *)
(***************************************************************************)
\* os.getenv('HOSTNAME', 'dockinfo') with HOSTNAME unset
Hostname == "dockinfo"

Req(route, arg) == [route |-> route, arg |-> arg]
NoRequest == Req("none", None)

\* the requests the clients send; arg is the path parameter, the container
\* name of the header/query, or the label query parameter (None: not given)
Requests ==
  {Req("health", None), Req("self", None), Req("packages", None), Req("list", None)}
  \cup {Req(r, n) : r \in {"container", "package"}, n \in {"web1", "ghost"}}
  \cup {Req("image", n) : n \in {"nginx:latest", "ghost"}}
  \cup {Req(r, n) : r \in {"package_query", "my_info"}, n \in {None, "db"}}
  \cup {Req("by_label", f) : f \in {None, "", "noequals", "tier=a=b", "tier=a",
                                    "dockinfo.enable=true"}}

\* the response a view returns before it calls get_docker_client, or NoResponse
\* if it goes on to call it
EarlyResponse(r) ==
  CASE r.route = "health" -> Resp(200, [status |-> "healthy"])
    [] r.route = "package_query" /\ ~Truthy(r.arg) ->
         Resp(400, ErrorBody("Container name required (header X-Container-Name or query param container)"))
    [] r.route = "my_info" /\ ~Truthy(r.arg) ->
         Resp(400, [error |-> "Container name required",
                    hint |-> "Set X-Container-Name header or container query parameter"])
    [] r.route = "by_label" -> ByLabelReject(r.arg)
    [] OTHER -> NoResponse

\* the response of a view from its call of get_docker_client on
ViewResponse(r, got_client, ctrs, up) ==
  CASE r.route = "container" -> Resp(200, get_container_info(got_client, ctrs, up, r.arg))
    [] r.route \in {"package", "package_query", "my_info"} ->
         Resp(200, get_service_info_from_labels(got_client, ctrs, up, r.arg))
    [] r.route = "self" ->
         Resp(200, get_service_info_from_labels(got_client, ctrs, up, Hostname))
    [] r.route = "image" -> Resp(200, get_image_info(got_client, ctrs, up, r.arg))
    [] r.route = "by_label" -> packages_by_label(got_client, ctrs, up, r.arg)
    [] r.route = "packages" -> list_packages(got_client, ctrs, up)
    [] r.route = "list" -> list_containers(got_client, ctrs, up)

(***************************************************************************)
(* State.                                                                  *)
(***************************************************************************)
VARIABLES
  docker_client,           \* the global: 0 is None, n > 0 the n-th client constructed
  constructed,             \* number of clients constructed so far
  pings,                   \* number of ping() calls issued so far
  probed,                  \* the clients that have answered a ping
  daemon,                  \* "up" or "down": whether the Docker daemon is reachable
  restarts_left,           \* how often the daemon may still start or stop
  eager_connect,           \* the client constructor contacts the daemon (API version
                           \* negotiation) or connects on first use only
  containers,              \* the runtime's containers in enumeration order
  pc,                      \* per thread: where it is in handling its request
  req,                     \* per thread: the request it handles
  client,                  \* per thread: what get_docker_client() returned to it
  resp,                    \* per thread: the response of the request
  allowed_origins_config,  \* the CORS allow-list
  cors_origin,             \* the Origin header last checked
  cors_allowed             \* what origin_allowed returned for it

vars == <<docker_client, constructed, pings, probed, daemon, restarts_left,
          eager_connect, containers, pc, req, client, resp,
          allowed_origins_config, cors_origin, cors_allowed>>

accessor == <<docker_client, constructed, pings, probed>>
runtime == <<daemon, restarts_left, eager_connect, containers>>
cors == <<allowed_origins_config, cors_origin, cors_allowed>>

Threads == 1..NThreads

ServiceIdle ==
  /\ docker_client = 0
  /\ constructed = 0
  /\ pings = 0
  /\ probed = {}
  /\ pc = [t \in Threads |-> "idle"]
  /\ req = [t \in Threads |-> NoRequest]
  /\ client = [t \in Threads |-> 0]
  /\ resp = [t \in Threads |-> NoResponse]

CorsIdle ==
  /\ allowed_origins_config = ParseCorsOrigins(None)
  /\ cors_origin = None
  /\ cors_allowed = FALSE

Init ==
  /\ ServiceIdle
  /\ CorsIdle
  /\ daemon \in {"up", "down"}
  /\ restarts_left = MaxRestarts
  /\ eager_connect \in BOOLEAN
  /\ containers \in ServiceWorlds

(***************************************************************************)
(* A thread handling one request.                                          *)
(***************************************************************************)
Finish(t, response) ==
  /\ resp' = [resp EXCEPT ![t] = response]
  /\ pc' = [pc EXCEPT ![t] = "done"]

\* the view is entered; it answers at once or calls get_docker_client
Begin(t, r) ==
  /\ pc[t] = "idle"
  /\ req' = [req EXCEPT ![t] = r]
  /\ IF EarlyResponse(r) # NoResponse
       THEN Finish(t, EarlyResponse(r))
       ELSE /\ pc' = [pc EXCEPT ![t] = "check"]
            /\ UNCHANGED resp
  /\ UNCHANGED <<accessor, runtime, client, cors>>

\* get_docker_client: if docker_client is None
Check(t) ==
  /\ pc[t] = "check"
  /\ pc' = [pc EXCEPT ![t] = IF docker_client = 0 THEN "construct" ELSE "return"]
  /\ UNCHANGED <<accessor, runtime, req, client, resp, cors>>

\* get_docker_client: docker_client = docker.DockerClient(...) / docker.from_env()
Construct(t) ==
  /\ pc[t] = "construct"
  /\ IF eager_connect /\ daemon = "down"
       THEN /\ Finish(t, ViewResponse(req[t], FALSE, containers, FALSE))
            /\ UNCHANGED <<docker_client, constructed>>
       ELSE /\ constructed' = constructed + 1
            /\ docker_client' = constructed + 1
            /\ pc' = [pc EXCEPT ![t] = "ping"]
            /\ UNCHANGED resp
  /\ UNCHANGED <<pings, probed, runtime, req, client, cors>>

\* get_docker_client: docker_client.ping()
Ping(t) ==
  /\ pc[t] = "ping"
  /\ pings' = pings + 1
  /\ IF daemon = "up"
       THEN /\ probed' = probed \cup {docker_client}
            /\ pc' = [pc EXCEPT ![t] = "return"]
            /\ UNCHANGED resp
       ELSE /\ Finish(t, ViewResponse(req[t], FALSE, containers, FALSE))
            /\ UNCHANGED probed
  /\ UNCHANGED <<docker_client, constructed, runtime, req, client, cors>>

\* get_docker_client: return docker_client
Return(t) ==
  /\ pc[t] = "return"
  /\ client' = [client EXCEPT ![t] = docker_client]
  /\ pc' = [pc EXCEPT ![t] = "use"]
  /\ UNCHANGED <<accessor, runtime, req, resp, cors>>

\* the rest of the view: the runtime query and the response
Use(t) ==
  /\ pc[t] = "use"
  /\ Finish(t, ViewResponse(req[t], TRUE, containers, daemon = "up"))
  /\ UNCHANGED <<accessor, runtime, req, client, cors>>

\* the response is sent; the thread takes the next request
Reply(t) ==
  /\ pc[t] = "done"
  /\ pc' = [pc EXCEPT ![t] = "idle"]
  /\ req' = [req EXCEPT ![t] = NoRequest]
  /\ client' = [client EXCEPT ![t] = 0]
  /\ resp' = [resp EXCEPT ![t] = NoResponse]
  /\ UNCHANGED <<accessor, runtime, cors>>

(***************************************************************************)
(* The environment.                                                        *)
(***************************************************************************)
DaemonStart ==
  /\ daemon = "down"
  /\ restarts_left > 0
  /\ daemon' = "up"
  /\ restarts_left' = restarts_left - 1
  /\ UNCHANGED <<accessor, eager_connect, containers, pc, req, client, resp, cors>>

DaemonStop ==
  /\ daemon = "up"
  /\ restarts_left > 0
  /\ daemon' = "down"
  /\ restarts_left' = restarts_left - 1
  /\ UNCHANGED <<accessor, eager_connect, containers, pc, req, client, resp, cors>>

\* flask-cors asks origin_allowed about the Origin header of a request
\* (one request per run: the function keeps no state between calls)
CheckOrigin(origin) ==
  /\ cors_origin = None
  /\ cors_origin' = origin
  /\ cors_allowed' = origin_allowed(origin, allowed_origins_config)
  /\ UNCHANGED <<accessor, runtime, pc, req, client, resp, allowed_origins_config>>

Step(t) ==
  \/ \E r \in Requests : Begin(t, r)
  \/ Check(t)
  \/ Construct(t)
  \/ Ping(t)
  \/ Return(t)
  \/ Use(t)
  \/ Reply(t)

\* the threaded server under daemon restarts
Next ==
  \/ \E t \in Threads : Step(t)
  \/ DaemonStart
  \/ DaemonStop

Spec == Init /\ [][Next]_vars

(***************************************************************************)
(* One thread serving requests one after the other, over every enumeration *)
(* of ScanWorlds, the daemon staying up or staying down.                   *)
(***************************************************************************)
InitScan ==
  /\ ServiceIdle
  /\ CorsIdle
  /\ daemon \in {"up", "down"}
  /\ restarts_left = 0
  /\ eager_connect \in BOOLEAN
  /\ containers \in ScanWorlds

NextScan == Step(1)

SpecScan == InitScan /\ [][NextScan]_vars

(***************************************************************************)
(* The origin policy over generated allow-lists and Origin headers.        *)
(***************************************************************************)
Tokens == {"s://", "t://", "*", ".a", "b"}

\* the strings of at most n tokens
RECURSIVE TokenStrings(_)
TokenStrings(n) ==
  IF n = 0 THEN {""}
  ELSE TokenStrings(n - 1) \cup {s \o t : s \in TokenStrings(n - 1), t \in Tokens}

\* values of the CORS_ORIGINS environment variable
CorsEnvs ==
  TokenStrings(MaxTokens)
  \cup {None, "https://*.example.com", "https://royadler.de, https://*.royadler.de",
        " , ", "s://b,,*.a ", "b.a,s://*"}

\* values of the Origin header ("" also stands for no header)
Origins ==
  TokenStrings(MaxTokens)
  \cup {"https://api.example.com", "https://example.com", "https://royadler.de",
        "http://www.royadler.de", "https://royadler.de.evil.com", "t://b.a", "b.a"}

InitOrigin ==
  /\ ServiceIdle
  /\ daemon = "up"
  /\ restarts_left = 0
  /\ eager_connect = FALSE
  /\ containers \in ServiceWorlds
  /\ allowed_origins_config \in {ParseCorsOrigins(e) : e \in CorsEnvs}
  /\ cors_origin = None
  /\ cors_allowed = FALSE

NextOrigin == \E origin \in Origins : CheckOrigin(origin)

SpecOrigin == InitOrigin /\ [][NextOrigin]_vars

(***************************************************************************)
(* Properties.  The expected values are stated declaratively, without the  *)
(* operators that model the handlers.                                      *)
(***************************************************************************)
\* the value of a label, "" when the container has no such label
Lab(c, key) ==
  IF c.labels_none \/ key \notin DOMAIN c.labels THEN "" ELSE c.labels[key]

\* the first non-empty string of a sequence, "" if there is none
FirstNonEmpty(vals) ==
  IF \A k \in 1..Len(vals) : vals[k] = "" THEN ""
  ELSE vals[CHOOSE k \in 1..Len(vals) : vals[k] # "" /\ \A j \in 1..(k - 1) : vals[j] = ""]

ExpectedDescriptor(c) ==
  [name |-> FirstNonEmpty(<<Lab(c, "dockinfo.name"), Lab(c, "dockinfo.service.name"), c.name>>),
   url |-> FirstNonEmpty(<<Lab(c, "dockinfo.service.url"), Lab(c, "dockinfo.url")>>),
   description |-> Lab(c, "dockinfo.description")]

\* the runtime answers and reports every container it enumerates
Reachable == daemon = "up" /\ \A i \in 1..Len(containers) : containers[i].fault # "removed"

Exists(name) == \E i \in 1..Len(containers) : containers[i].name = name

\* C7: for every existing container the label-only descriptor (/package/{name},
\* /package, /my-info) has as name the first non-empty of label dockinfo.name,
\* label dockinfo.service.name and the container name, and so a non-empty name;
\* as url the first non-empty of label dockinfo.service.url and label
\* dockinfo.url, else ""; as description label dockinfo.description or "";
\* absent labels are an empty mapping and give no error result.
C7_LabelDescriptor ==
  \A t \in Threads :
    (/\ pc[t] = "done"
     /\ req[t].route \in {"package", "package_query", "my_info"}
     /\ Truthy(req[t].arg)
     /\ Reachable
     /\ Exists(req[t].arg))
    => LET c == containers[CHOOSE i \in 1..Len(containers) : containers[i].name = req[t].arg]
       IN  /\ resp[t] = Resp(200, ExpectedDescriptor(c))
           /\ resp[t].body.name # ""
           /\ "error" \notin DOMAIN resp[t].body

\* a container with an empty dockinfo.name label was resolved to its
\* dockinfo.service.name label, and its url to label dockinfo.url
C7_Witness ==
  /\ pc[1] = "done"
  /\ req[1] = Req("package", "web1")
  /\ Reachable
  /\ Len(containers) = 1
  /\ ~containers[1].labels_none
  /\ "dockinfo.name" \in DOMAIN containers[1].labels
  /\ "dockinfo.service.url" \notin DOMAIN containers[1].labels
  /\ resp[1].body = [name |-> "svc", url |-> "http://u", description |-> ""]

\* v equals "true" up to the case of its letters
IsTrueIgnoringCase(v) ==
  /\ Len(v) = 4
  /\ CharAt(v, 1) \in {"t", "T"}
  /\ CharAt(v, 2) \in {"r", "R"}
  /\ CharAt(v, 3) \in {"u", "U"}
  /\ CharAt(v, 4) \in {"e", "E"}

IsEnabled(c) ==
  IsTrueIgnoringCase(Lab(c, "dockinfo.enable")) /\ ExpectedDescriptor(c).name # ""

\* the descriptors of a sequence of containers, in its order
DescriptorsOf(sel) == [k \in 1..Len(sel) |-> ExpectedDescriptor(sel[k])]

\* C6: /packages returns exactly one descriptor for each container whose label
\* dockinfo.enable is "true" up to case and whose resolved name is non-empty, in
\* enumeration order, every other container excluded, and count is the number
\* of descriptors returned.
C6_EnabledServices ==
  \A t \in Threads :
    (pc[t] = "done" /\ req[t].route = "packages" /\ Reachable)
    => /\ resp[t].status = 200
       /\ resp[t].body.packages = DescriptorsOf(SelectSeq(containers, IsEnabled))
       /\ resp[t].body.count = Len(resp[t].body.packages)

\* of two containers the first, not enabled, is left out and the second,
\* enabled by "True", is returned
C6_Witness ==
  /\ pc[1] = "done"
  /\ req[1].route = "packages"
  /\ Reachable
  /\ Len(containers) = 2
  /\ Lab(containers[1], "dockinfo.enable") = "false"
  /\ Lab(containers[2], "dockinfo.enable") = "True"
  /\ resp[1].body.count = 1
  /\ resp[1].body.packages[1].name = "db"

\* the filter is missing, empty or has no '='
BadFilter(f) == f = None \/ f = "" \/ \A k \in 1..Len(f) : CharAt(f, k) # "="

\* key and value are the parts of f around its first '='
IsFirstSplit(f, key, value) ==
  /\ f = key \o "=" \o value
  /\ \A k \in 1..Len(key) : CharAt(key, k) # "="

\* the container has a label that the filter names and whose value it gives
MatchesFilter(c, f) ==
  /\ ~c.labels_none
  /\ \E key \in DOMAIN c.labels : IsFirstSplit(f, key, c.labels[key])

ExpectedByLabel(f) ==
  LET Matching(c) == MatchesFilter(c, f)
      found == DescriptorsOf(SelectSeq(containers, Matching))
  IN  Resp(200, [filter |-> f, count |-> Len(found), packages |-> found])

\* C8: /by-label rejects a missing, empty or '='-less filter with 400 and an
\* error body before get_docker_client is called, whatever the state of the
\* runtime, and leaves docker_client as it was; otherwise it splits the filter at
\* its first '=' only and returns the containers whose label of that key equals
\* the value exactly.
C8_ByLabel ==
  [][\A t \in Threads :
       /\ (pc[t] = "idle" /\ pc'[t] # "idle" /\ req'[t].route = "by_label")
          => IF BadFilter(req'[t].arg)
               THEN /\ pc'[t] = "done"
                    /\ resp'[t].status = 400
                    /\ "error" \in DOMAIN resp'[t].body
                    /\ docker_client' = docker_client
                    /\ constructed' = constructed
                    /\ pings' = pings
               ELSE pc'[t] = "check" /\ resp'[t] = NoResponse
       /\ (pc[t] = "use" /\ pc'[t] = "done" /\ req[t].route = "by_label" /\ Reachable)
          => resp'[t] = ExpectedByLabel(req[t].arg)]_vars

\* "tier=a=b" was split into "tier" and "a=b": of two containers the one
\* labelled tier=a=b is returned
C8_Witness ==
  /\ pc[1] = "done"
  /\ req[1] = Req("by_label", "tier=a=b")
  /\ Reachable
  /\ Len(containers) = 2
  /\ Lab(containers[1], "tier") = ""
  /\ Lab(containers[2], "tier") = "a=b"
  /\ resp[1].status = 200
  /\ resp[1].body.count = 1
  /\ resp[1].body.packages[1].name = "db"

\* C9: in every directory scan (/list, /packages, /by-label) a failure while
\* processing one container skips only that container; every other container
\* that belongs in the response is in it and the request does not fail.
C9_ScanSkipsOnlyTheFailing ==
  \A t \in Threads :
    (/\ pc[t] = "done"
     /\ req[t].route \in {"list", "packages", "by_label"}
     /\ ~(req[t].route = "by_label" /\ BadFilter(req[t].arg))
     /\ daemon = "up"
     /\ \E i \in 1..Len(containers) : containers[i].fault = "none")
    => /\ resp[t].status = 200
       /\ \A i \in 1..Len(containers) :
            containers[i].fault # "removed" =>
              CASE req[t].route = "list" ->
                     \E k \in 1..Len(resp[t].body.containers) :
                       resp[t].body.containers[k].name = containers[i].name
                [] req[t].route = "packages" ->
                     IsEnabled(containers[i]) =>
                       \E k \in 1..Len(resp[t].body.packages) :
                         resp[t].body.packages[k] = ExpectedDescriptor(containers[i])
                [] OTHER ->
                     MatchesFilter(containers[i], req[t].arg) =>
                       \E k \in 1..Len(resp[t].body.packages) :
                         resp[t].body.packages[k] = ExpectedDescriptor(containers[i])

HasStar(s) == \E k \in 1..Len(s) : CharAt(s, k) = "*"
SchemeEnds(s) == {k \in 3..Len(s) : SubSeq(s, k - 2, k) = "://"}
HasScheme(s) == SchemeEnds(s) # {}
\* what follows the first "://" of s
AfterScheme(s) ==
  SubSeq(s, 1 + (CHOOSE k \in SchemeEnds(s) : \A j \in SchemeEnds(s) : k <= j), Len(s))

EntryAllows(origin, entry) ==
  \/ origin = entry
  \/ /\ HasStar(entry)
     /\ \/ fnmatch(origin, entry)
        \/ /\ HasScheme(entry)
           /\ HasScheme(origin)
           /\ fnmatch(AfterScheme(origin), AfterScheme(entry))

\* C10: origin_allowed is False for an empty or absent origin, True when the
\* origin equals an entry, and for an entry with '*' True iff the origin
\* glob-matches the entry or, both having "://", the origin without its scheme
\* glob-matches the entry without its scheme; under ["https://*.example.com"],
\* "https://api.example.com" is allowed and "https://example.com" is not.
C10_OriginAllowed ==
  cors_origin # None =>
    /\ cors_allowed =
         (/\ cors_origin # ""
          /\ \E k \in 1..Len(allowed_origins_config) :
               EntryAllows(cors_origin, allowed_origins_config[k]))
    /\ allowed_origins_config = <<"https://*.example.com">> =>
         /\ cors_origin = "https://api.example.com" => cors_allowed
         /\ cors_origin = "https://example.com" => ~cors_allowed

\* the subdomain origin was checked against the wildcard entry and allowed
C10_Witness ==
  /\ allowed_origins_config = <<"https://*.example.com">>
  /\ cors_origin = "https://api.example.com"
  /\ cors_allowed

\* the daemon has been up, or has been down, since the process started
AlwaysUp == daemon = "up" /\ restarts_left = MaxRestarts
AlwaysDown == daemon = "down" /\ restarts_left = MaxRestarts

\* C1: with the runtime reachable and no container of the given name,
\* /container/{name} and /package/{name} return the error result
\* "Container {name} not found", never the 'Docker daemon not available' one.
C1_NotFoundMessage ==
  \A t \in Threads :
    (/\ pc[t] = "done"
     /\ req[t].route \in {"container", "package"}
     /\ AlwaysUp
     /\ ~Exists(req[t].arg))
    => resp[t] = Resp(200, ErrorBody("Container " \o req[t].arg \o " not found"))

\* C2: a call of get_docker_client that fails (the constructor or the ping
\* raises) leaves docker_client None, and no later call returns a handle that
\* was never probed.
C2_FailureNotMemoized ==
  [][\A t \in Threads :
       /\ (pc[t] \in {"construct", "ping"} /\ pc'[t] = "done") => docker_client' = 0
       /\ pc'[t] = "use" => client'[t] \in probed']_vars

\* C3: at most one runtime connection is constructed over the life of the
\* process, under any interleaving of the requests.
C3_AtMostOneConnection == constructed <= 1

\* the routes whose views call get_docker_client
RuntimeRoutes ==
  {"container", "package", "image", "self", "package_query", "my_info",
   "by_label", "packages", "list"}

\* the view of request r gets as far as get_docker_client
TouchesRuntime(r) ==
  /\ r.route \in RuntimeRoutes
  /\ r.route \in {"package_query", "my_info"} => Truthy(r.arg)
  /\ r.route = "by_label" => ~BadFilter(r.arg)

\* C4: while the runtime is unavailable every request to an endpoint that
\* touches the runtime, the second and later ones too, ends in the 'Docker
\* daemon not available' error result, and /health returns 200
\* {"status": "healthy"} without calling get_docker_client.  (For /packages
\* the empty listing, into which get_enabled_services turns that error, is
\* taken as this result.)
C4_RuntimeUnavailable ==
  [][\A t \in Threads :
       /\ (pc'[t] = "done" /\ pc[t] # "done" /\ AlwaysDown /\ TouchesRuntime(req'[t]))
          => /\ resp'[t].status \in {200, 503}
             /\ IF req'[t].route = "packages"
                  THEN resp'[t].body = [count |-> 0, packages |-> <<>>]
                  ELSE resp'[t].body = ErrorBody(DaemonMsg)
       /\ (pc[t] = "idle" /\ pc'[t] # "idle" /\ req'[t].route = "health")
          => /\ pc'[t] = "done"
             /\ resp'[t] = Resp(200, [status |-> "healthy"])
             /\ docker_client' = docker_client
             /\ constructed' = constructed
             /\ pings' = pings]_vars

\* C5: once get_docker_client has succeeded, docker_client is never reassigned
\* or reset, no further client is constructed and no further ping is issued;
\* every later call returns that handle.
C5_MemoizedForever ==
  [][(docker_client # 0 /\ docker_client \in probed)
       => /\ docker_client' = docker_client
          /\ constructed' = constructed
          /\ pings' = pings
          /\ \A t \in Threads : pc'[t] = "use" => client'[t] = docker_client]_vars

====
